---- MODULE Spec2Model ----
(***************************************************************************)
(* Model of the my-todos application.                                      *)
(*                                                                         *)
(* Part I models the program of src/src/main.rs: the TaskList it owns,     *)
(* the worker that spawns one tokio task per DbRequest, the SQLite table   *)
(* `todos` behind it, and the message handler that applies DbMessages to   *)
(* the TaskList on the UI thread.                                          *)
(*                                                                         *)
(* Part II models the list engine the library (src/src/lib.rs) is built    *)
(* on: AsyncList<Task, TaskStorage>.  The Task side of it (task_list.rs,   *)
(* core.rs, database.rs, pending.rs) is modelled from the source; the      *)
(* manager itself (ui/component/list) is modelled from sections 3 and 4 of *)
(* the specification.                                                      *)
(*                                                                         *)
(* Part III models the rendering of the list: TaskFilter and TaskSorter of *)
(* task_list.rs, and the filter+sort pipeline of the manager.              *)
(*                                                                         *)
(* Part IV runs the functions of database.rs as concurrent calls on the    *)
(* table, whoever makes them.                                              *)
(***************************************************************************)
EXTENDS Integers, Sequences, FiniteSets, Bags, TLC

\* ------------------------------------------------------------------------
\* Bounds of the model
\* ------------------------------------------------------------------------

\* number of times the user may submit a new task (add_task that sends)
MaxAdds == 1

\* texts the user can type in the new-task input ("" is the empty input)
Descriptions == {"a", "b"}

\* rows the table `todos` may hold when the program starts
InitialTables ==
    { {},
      {[id |-> 1, description |-> "a", done |-> FALSE]},
      {[id |-> 1, description |-> "a", done |-> TRUE]} }

VARIABLES
    db_sender,   \* AppState.db_sender: FALSE = None, TRUE = Some(sender)
    task_list,   \* AppState.task_list: [next_task, filter, tasks]
    rx,          \* bag of DbRequests sent and not yet executed by a spawned task
    results,     \* set of DbMessages produced by tasks and not yet handled
    todos,       \* rows of the SQLite table todos
    created,     \* history: [id, desc] of every AddTodo request the table accepted
    discarded,   \* history: ids of the TodoFetched messages that matched no entry
    preempted,   \* history: ids that were Pending when a fetch-all without them was applied
    removed,     \* history: ids the user removed with the Delete button
    failed,      \* history: TRUE once a storage call has returned Err
    intents,     \* history: number of AddTodo requests the user caused
    calls        \* history: storage calls executed, per kind of request

\* the variables of main.rs
mvars == <<db_sender, task_list, rx, results, todos, created, discarded,
           preempted, removed, failed, intents, calls>>

VARIABLES
    items,       \* the collection of the AsyncList: entries [state, item, request_id]
    table,       \* rows of the table todos that database.rs reads and writes
    next_rowid,  \* the rowid the next INSERT is given
    inflight,    \* Pending<request>s handed to storage and still running
    responses,   \* Pending<result>s of finished calls, not yet consumed
    storage,     \* TaskStorage: [last_error]
    create_form, \* CreateTaskForm: [description, last_error]
    update_form, \* the open UpdateTaskForm with the id it edits, or NoForm
    request_ids, \* number of request ids issued by Pending::new
    rejected,    \* history: TRUE once an intent was refused on a pending entry
    failures     \* history: [op, id] of the failed responses consumed

\* the variables of the list engine
evars == <<items, table, next_rowid, inflight, responses, storage, create_form,
           update_form, request_ids, rejected, failures>>

VARIABLES
    entries,     \* the tasks of the collection that is rendered, in storage order
    task_filter, \* TaskFilter of the list
    task_sorter, \* TaskSorter of the list
    view         \* the rows as the last render has put them on the screen

\* the variables of the rendered list
pvars == <<entries, task_filter, task_sorter, view>>

vars == <<mvars, evars, pvars>>

\* ------------------------------------------------------------------------
\* Data (main.rs)
\* ------------------------------------------------------------------------

\* enum Filter
Filter == {"All", "Active", "Completed"}

\* enum TaskStatus
Pending(id) == [tag |-> "Pending", id |-> id]
Available(task) == [tag |-> "Available", task |-> task]

\* the id an entry of TaskList.tasks carries
EntryId(e) == IF e.tag = "Pending" THEN e.id ELSE e.task.id

\* enum DbRequest
FetchAllTodos == [req |-> "FetchAllTodos"]
FetchTodo(id) == [req |-> "FetchTodo", id |-> id]
AddTodo(desc, done) == [req |-> "AddTodo", desc |-> desc, done |-> done]

\* enum DbMessage
AllTodosFetched(ts) == [msg |-> "AllTodosFetched", tasks |-> ts]
TodoFetched(task) == [msg |-> "TodoFetched", task |-> task]
TodoAdded(id) == [msg |-> "TodoAdded", id |-> id]

\* sender.send(req): the request joins the worker's channel
Send(chan, r) == chan (+) SetToBag({r})

\* rx.recv() followed by tokio::task::spawn: the request leaves the channel
Recv(chan, r) == chan (-) SetToBag({r})

\* ------------------------------------------------------------------------
\* The table todos (main.rs, the three queries)
\* ------------------------------------------------------------------------

Ids(rows) == {r.id : r \in rows}

MaxId(rows) == IF rows = {} THEN 0 ELSE CHOOSE m \in Ids(rows) : \A n \in Ids(rows) : n <= m

\* the rows as the Vec<Task> a SELECT returns them: in rowid order
RECURSIVE RowsInOrder(_)
RowsInOrder(rows) ==
    IF rows = {} THEN <<>>
    ELSE LET r == CHOOSE x \in rows : x.id = MaxId(rows)
         IN  Append(RowsInOrder(rows \ {r}), r)

\* fetch_all_todos
fetch_all_todos(rows) == RowsInOrder(rows)

\* add_todo: INSERT, then last_insert_rowid()
add_todo(rows, desc, done) ==
    LET id == MaxId(rows) + 1
    IN  [id |-> id, rows |-> rows \cup {[id |-> id, description |-> desc, done |-> done]}]

\* ------------------------------------------------------------------------
\* TaskList (main.rs)
\* ------------------------------------------------------------------------

\* TaskList::default
TaskListDefault == [next_task |-> "", filter |-> "All", tasks |-> <<>>]

\* TaskList::new
TaskListNew(ts) ==
    [next_task |-> "", filter |-> "All",
     tasks |-> [i \in 1..Len(ts) |-> Available(ts[i])]]

\* TaskList::add_pending, the collection after the push
AddPending(tasks, id) == Append(tasks, Pending(id))

\* the position update_pending's find() yields: the first Pending(id), 0 if none
FindPending(tasks, id) ==
    LET hits == {i \in 1..Len(tasks) : tasks[i] = Pending(id)}
    IN  IF hits = {} THEN 0 ELSE CHOOSE i \in hits : \A j \in hits : i <= j

\* an update_pending that inserts the task when no Pending(id) is found
UpdatePendingUpsert(tasks, id, new_task) ==
    LET i == FindPending(tasks, id)
    IN  IF i = 0 THEN Append(tasks, Available(new_task))
        ELSE [tasks EXCEPT ![i] = Available(new_task)]

\* TaskList::update_pending
UpdatePending(tasks, id, new_task) ==
    LET i == FindPending(tasks, id)
    IN  IF i = 0 THEN tasks ELSE [tasks EXCEPT ![i] = Available(new_task)]

\* Vec::remove(i)
Remove(tasks, i) == [j \in 1..(Len(tasks) - 1) |-> IF j < i THEN tasks[j] ELSE tasks[j + 1]]

\* the row filter of app_logic: whether an Available task is rendered
Rendered(filter, task) ==
    ~ (  (filter = "Active" /\ task.done)
      \/ (filter = "Completed" /\ ~task.done))

\* the filter_map of app_logic: whether an entry of the list gets a row (a
\* Pending entry always gets its spinner row)
RenderedEntry(filter, entry) ==
    IF entry.tag = "Pending" THEN TRUE ELSE Rendered(filter, entry.task)


\* ------------------------------------------------------------------------
\* The program of main.rs
\* ------------------------------------------------------------------------

NoCalls == [FetchAllTodos |-> 0, FetchTodo |-> 0, AddTodo |-> 0]

\* Option::None of the two last_error fields and of the open form
None == "None"

\* no UpdateTaskForm is open
NoForm ==
    [open |-> FALSE, id |-> 0, description |-> "", status |-> "ToDo",
     priority |-> "Low", last_error |-> None]

\* CreateTaskForm::default
CreateTaskFormDefault == [description |-> "", last_error |-> None]

\* AppState::default of lib.rs: an AsyncList with nothing in it
AsyncListDefault ==
    /\ items = <<>>
    /\ inflight = {}
    /\ responses = {}
    /\ storage = [last_error |-> None]
    /\ create_form = CreateTaskFormDefault
    /\ update_form = NoForm
    /\ request_ids = 0
    /\ rejected = FALSE
    /\ failures = {}

\* #[default] of TaskFilter and of TaskSorter, nothing rendered yet
ListViewDefault ==
    /\ entries = <<>>
    /\ task_filter = "Active"
    /\ task_sorter = "StatusFirst"
    /\ view = <<>>

\* run(): AppState { db_sender: None, task_list: TaskList::default() }
Init ==
    /\ db_sender = FALSE
    /\ task_list = TaskListDefault
    /\ rx = EmptyBag
    /\ results = {}
    /\ todos \in InitialTables
    /\ created = {}
    /\ discarded = {}
    /\ preempted = {}
    /\ removed = {}
    /\ failed = FALSE
    /\ intents = 0
    /\ calls = NoCalls
    /\ AsyncListDefault
    /\ table = {}
    /\ next_rowid = 1
    /\ ListViewDefault

\* worker(), second closure: the sender is stored and the fetch-all is requested
StoreSender ==
    /\ ~db_sender
    /\ db_sender' = TRUE
    /\ rx' = Send(rx, FetchAllTodos)
    /\ UNCHANGED <<task_list, results, todos, created, discarded, preempted, removed, failed, intents, calls>>
    /\ UNCHANGED <<evars, pvars>>

\* text_input callback: the typed text replaces next_task
EditNextTask(text) ==
    /\ task_list' = [task_list EXCEPT !.next_task = text]
    /\ UNCHANGED <<db_sender, rx, results, todos, created, discarded, preempted, removed, failed, intents, calls>>
    /\ UNCHANGED <<evars, pvars>>

\* an add_task that sends a clone of next_task and keeps the text
AddTaskKeepText ==
    /\ IF db_sender /\ task_list.next_task # ""
       THEN /\ intents < MaxAdds
            /\ rx' = Send(rx, AddTodo(task_list.next_task, FALSE))
            /\ intents' = intents + 1
            /\ UNCHANGED task_list
       ELSE UNCHANGED <<rx, task_list, intents>>
    /\ UNCHANGED <<db_sender, results, todos, created, discarded, preempted, removed, failed, calls>>
    /\ UNCHANGED <<evars, pvars>>

\* TaskList::add_task (on_enter and the "Add task" button)
AddTask ==
    /\ IF db_sender /\ task_list.next_task # ""
       THEN /\ intents < MaxAdds
            /\ rx' = Send(rx, AddTodo(task_list.next_task, FALSE))
            /\ task_list' = [task_list EXCEPT !.next_task = ""]
            /\ intents' = intents + 1
       ELSE UNCHANGED <<rx, task_list, intents>>
    /\ UNCHANGED <<db_sender, results, todos, created, discarded, preempted, removed, failed, calls>>
    /\ UNCHANGED <<evars, pvars>>

\* checkbox callback of a rendered row: task.done = checked, in place
ToggleDone(i, checked) ==
    /\ i \in 1..Len(task_list.tasks)
    /\ task_list.tasks[i].tag = "Available"
    /\ Rendered(task_list.filter, task_list.tasks[i].task)
    /\ task_list' = [task_list EXCEPT !.tasks[i].task.done = checked]
    /\ UNCHANGED <<db_sender, rx, results, todos, created, discarded, preempted, removed, failed, intents, calls>>
    /\ UNCHANGED <<evars, pvars>>

\* delete_button callback of a rendered row: tasks.remove(i)
DeleteRow(i) ==
    /\ i \in 1..Len(task_list.tasks)
    /\ task_list.tasks[i].tag = "Available"
    /\ Rendered(task_list.filter, task_list.tasks[i].task)
    /\ task_list' = [task_list EXCEPT !.tasks = Remove(task_list.tasks, i)]
    /\ removed' = removed \cup {task_list.tasks[i].task.id}
    /\ UNCHANGED <<db_sender, rx, results, todos, created, discarded, preempted, failed, intents, calls>>
    /\ UNCHANGED <<evars, pvars>>

\* filter_tasks checkbox of the footer, rendered when has_tasks
SetFilter(f) ==
    /\ task_list.tasks # <<>>
    /\ task_list' = [task_list EXCEPT !.filter = f]
    /\ UNCHANGED <<db_sender, rx, results, todos, created, discarded, preempted, removed, failed, intents, calls>>
    /\ UNCHANGED <<evars, pvars>>

\* a worker that offers a failed request to the channel again
OnErrRetry(chan, r) == Send(chan, r)

\* the Err arm of a spawned task: the error is printed, nothing is sent
OnErr(chan, r) == chan

\* spawned task, DbRequest::FetchAllTodos
ExecFetchAllTodos(ok) ==
    /\ BagIn(FetchAllTodos, rx)
    /\ calls' = [calls EXCEPT !.FetchAllTodos = @ + 1]
    /\ IF ok
       THEN /\ rx' = Recv(rx, FetchAllTodos)
            /\ results' = results \cup {AllTodosFetched(fetch_all_todos(todos))}
            /\ UNCHANGED failed
       ELSE /\ rx' = OnErr(Recv(rx, FetchAllTodos), FetchAllTodos)
            /\ failed' = TRUE
            /\ UNCHANGED results
    /\ UNCHANGED <<db_sender, task_list, todos, created, discarded, preempted, removed, intents>>
    /\ UNCHANGED <<evars, pvars>>

\* spawned task, DbRequest::FetchTodo(id); fetch_one fails when no row has the id
ExecFetchTodo(id, ok) ==
    /\ BagIn(FetchTodo(id), rx)
    /\ calls' = [calls EXCEPT !.FetchTodo = @ + 1]
    /\ IF ok /\ id \in Ids(todos)
       THEN /\ rx' = Recv(rx, FetchTodo(id))
            /\ results' = results \cup {TodoFetched(CHOOSE r \in todos : r.id = id)}
            /\ UNCHANGED failed
       ELSE /\ rx' = OnErr(Recv(rx, FetchTodo(id)), FetchTodo(id))
            /\ failed' = TRUE
            /\ UNCHANGED results
    /\ UNCHANGED <<db_sender, task_list, todos, created, discarded, preempted, removed, intents>>
    /\ UNCHANGED <<evars, pvars>>

\* spawned task, DbRequest::AddTodo(desc, done)
ExecAddTodo(desc, done, ok) ==
    /\ BagIn(AddTodo(desc, done), rx)
    /\ calls' = [calls EXCEPT !.AddTodo = @ + 1]
    /\ IF ok
       THEN /\ rx' = Recv(rx, AddTodo(desc, done))
            /\ todos' = add_todo(todos, desc, done).rows
            /\ results' = results \cup {TodoAdded(add_todo(todos, desc, done).id)}
            /\ created' = created \cup {[id |-> add_todo(todos, desc, done).id, desc |-> desc]}
            /\ UNCHANGED failed
       ELSE /\ rx' = OnErr(Recv(rx, AddTodo(desc, done)), AddTodo(desc, done))
            /\ failed' = TRUE
            /\ UNCHANGED <<todos, results, created>>
    /\ UNCHANGED <<db_sender, task_list, discarded, preempted, removed, intents>>
    /\ UNCHANGED <<evars, pvars>>

\* message handler, DbMessage::AllTodosFetched
OnAllTodosFetched(m) ==
    /\ m \in results /\ m.msg = "AllTodosFetched"
    /\ results' = results \ {m}
    /\ task_list' = TaskListNew(m.tasks)
    /\ preempted' = preempted \cup
          {e.id : e \in {task_list.tasks[i] : i \in
                   {j \in 1..Len(task_list.tasks) :
                      /\ task_list.tasks[j].tag = "Pending"
                      /\ \A k \in 1..Len(m.tasks) : m.tasks[k].id # task_list.tasks[j].id}}}
    /\ UNCHANGED <<db_sender, rx, todos, created, discarded, removed, failed, intents, calls>>
    /\ UNCHANGED <<evars, pvars>>

\* message handler, DbMessage::TodoFetched
OnTodoFetched(m) ==
    /\ m \in results /\ m.msg = "TodoFetched"
    /\ results' = results \ {m}
    /\ task_list' = [task_list EXCEPT !.tasks = UpdatePending(@, m.task.id, m.task)]
    /\ discarded' = IF FindPending(task_list.tasks, m.task.id) = 0
                    THEN discarded \cup {m.task.id} ELSE discarded
    /\ UNCHANGED <<db_sender, rx, todos, created, preempted, removed, failed, intents, calls>>
    /\ UNCHANGED <<evars, pvars>>

\* message handler, DbMessage::TodoAdded
OnTodoAdded(m) ==
    /\ m \in results /\ m.msg = "TodoAdded"
    /\ results' = results \ {m}
    /\ task_list' = [task_list EXCEPT !.tasks = AddPending(@, m.id)]
    /\ rx' = IF db_sender THEN Send(rx, FetchTodo(m.id)) ELSE rx
    /\ UNCHANGED <<db_sender, todos, created, discarded, preempted, removed, failed, intents, calls>>
    /\ UNCHANGED <<evars, pvars>>

Next ==
    \/ StoreSender
    \/ \E text \in Descriptions \cup {""} : EditNextTask(text)
    \/ AddTask
    \/ \E i \in 1..Len(task_list.tasks), checked \in BOOLEAN : ToggleDone(i, checked)
    \/ \E i \in 1..Len(task_list.tasks) : DeleteRow(i)
    \/ \E f \in Filter : SetFilter(f)
    \/ \E ok \in BOOLEAN : ExecFetchAllTodos(ok)
    \/ \E r \in BagToSet(rx), ok \in BOOLEAN : r.req = "FetchTodo" /\ ExecFetchTodo(r.id, ok)
    \/ \E r \in BagToSet(rx), ok \in BOOLEAN : r.req = "AddTodo" /\ ExecAddTodo(r.desc, r.done, ok)
    \/ \E m \in results : OnAllTodosFetched(m)
    \/ \E m \in results : OnTodoFetched(m)
    \/ \E m \in results : OnTodoAdded(m)

Spec == Init /\ [][Next]_vars


\* ------------------------------------------------------------------------
\* Properties of the program of main.rs
\* ------------------------------------------------------------------------

tasks == task_list.tasks

\* positions of the entries that carry the id
EntriesOf(ts, id) == {i \in 1..Len(ts) : EntryId(ts[i]) = id}

\* the messages a step takes from the worker (the handler consumes one)
Handled == results \ results'

\* number of requests of a kind waiting in the channel
Waiting(kind) ==
    LET rs == {r \in BagToSet(rx) : r.req = kind}
        RECURSIVE Sum(_)
        Sum(S) == IF S = {} THEN 0
                  ELSE LET r == CHOOSE x \in S : TRUE IN CopiesIn(r, rx) + Sum(S \ {r})
    IN  Sum(rs)

\* every request has been executed and every message handled
Quiescent == db_sender /\ rx = EmptyBag /\ results = {}

\* C2: no two entries of the collection carry the same id, whatever the order
\* in which AllTodosFetched, TodoAdded and TodoFetched arrive.
C2_NoDuplicateId ==
    \A i, j \in 1..Len(tasks) : i # j => EntryId(tasks[i]) # EntryId(tasks[j])

\* C3: once every response has been delivered (and no storage call failed),
\* the collection holds exactly the stored rows the user has not removed,
\* each once and Available, whatever the order of completion.
C3_ReorderingInvariance ==
    (Quiescent /\ ~failed) =>
        /\ \A i \in 1..Len(tasks) : tasks[i].tag = "Available"
        /\ {EntryId(tasks[i]) : i \in 1..Len(tasks)} = Ids(todos) \ removed
        /\ Len(tasks) = Cardinality(Ids(todos) \ removed)

\* C4: an entry that was pending when a fetch-all without it was applied is
\* Available in the collection once its own TodoFetched has been handled.
C4_OwnResponseGoverns ==
    [][\A m \in Handled :
          (m.msg = "TodoFetched" /\ m.task.id \in preempted) =>
              \E i \in 1..Len(tasks') : tasks'[i] = Available(m.task)]_vars

\* C5: when the success response of a create is handled, the collection holds
\* exactly one entry with the id the table assigned, it is Available and has
\* the description of the intent; no Pending entry of the create remains.
C5_CreateRoundTrip ==
    [][\A m \in Handled : m.msg = "TodoFetched" =>
          \A c \in created : c.id = m.task.id =>
              /\ Cardinality(EntriesOf(tasks', c.id)) = 1
              /\ \A i \in EntriesOf(tasks', c.id) :
                    tasks'[i] = Available([id |-> c.id, description |-> c.desc, done |-> FALSE])]_vars

\* C6: no entry stays Pending once the storage call behind it has completed:
\* every Pending(id) has its FetchTodo waiting or its TodoFetched on the way.
C6_FailedCreateResolved ==
    \A i \in 1..Len(tasks) :
        tasks[i].tag = "Pending" =>
            \/ BagIn(FetchTodo(tasks[i].id), rx)
            \/ \E m \in results : m.msg = "TodoFetched" /\ m.task.id = tasks[i].id

\* C8: a Delete keeps the entry until a storage response: an Available entry
\* leaves the collection only in a step that handles a message of the worker.
C8_DeleteThroughStore ==
    [][\A i \in 1..Len(tasks) :
          (tasks[i].tag = "Available" /\ Handled = {}) =>
              EntriesOf(tasks', tasks[i].task.id) # {}]_vars

\* C9: a TodoFetched whose id matches no Pending entry changes nothing (the
\* collection, the input, the filter, the channel); one that matches changes
\* the first matching Pending entry and no other entry.
C9_IdempotentDiscard ==
    [][\A m \in Handled : m.msg = "TodoFetched" =>
          LET i == FindPending(tasks, m.task.id)
          IN  /\ task_list'.next_task = task_list.next_task
              /\ task_list'.filter = task_list.filter
              /\ rx' = rx
              /\ Len(tasks') = Len(tasks)
              /\ \A j \in 1..Len(tasks) : j # i => tasks'[j] = tasks[j]
              /\ i # 0 => tasks'[i] = Available(m.task)]_vars

\* C9 witness: a TodoFetched was discarded while the collection held entries
C9_Witness == discarded # {} /\ tasks # <<>>


\* C13: the attributes of an item change only through the storage: when an
\* entry that is Available before and after a step holds another description
\* or done flag after it, the step has handled a response of the worker.
C13_MutatedOnlyByUpdate ==
    [][\A i \in 1..Len(tasks), j \in 1..Len(tasks') :
          (/\ tasks[i].tag = "Available"
           /\ tasks'[j].tag = "Available"
           /\ tasks'[j].task.id = tasks[i].task.id
           /\ tasks'[j].task # tasks[i].task) => Handled # {}]_vars


\* C19: a pending entry is shown exactly when the filter accepts the item it
\* stands for (the row the table holds under its id): it is never shown under
\* a filter that hides it once it is Available.
C19_PendingFiltered ==
    \A i \in 1..Len(tasks) :
        tasks[i].tag = "Pending" =>
            \A r \in todos :
                r.id = EntryId(tasks[i]) =>
                    (RenderedEntry(task_list.filter, tasks[i]) <=> Rendered(task_list.filter, r))


\* C20: the filter and the text of the new-task input change only when the
\* user changes them: a step that handles a message of the worker leaves the
\* selected filter and the typed text as they are.
C20_FilterOnlyByToggle ==
    [][Handled # {} =>
          /\ task_list'.filter = task_list.filter
          /\ task_list'.next_task = task_list.next_task]_vars


\* ------------------------------------------------------------------------
\* Part II.  Task, its forms and its view (core.rs, task_list.rs)
\* ------------------------------------------------------------------------

\* number of storage calls the user may cause (request ids issued)
MaxRequests == 2

\* rows the table may hold when the list has been loaded
LoadedTables ==
    { {[id |-> 1, description |-> "a", status |-> "ToDo", priority |-> "Low"]} }

\* texts the user types in the description input of a form ("" is the empty
\* input); in the update form the text it was opened with may also be left
Typed == {"", "b"}

\* times the user presses the status and the priority button of an open form
Presses == {0, 1}

\* enum Status, enum Priority
Status == {"ToDo", "InProgress", "Done"}
Priority == {"Low", "Medium", "High"}

\* Status::next
StatusNext(st) ==
    CASE st = "ToDo" -> "InProgress"
      [] st = "InProgress" -> "Done"
      [] st = "Done" -> "ToDo"

\* Priority::next
PriorityNext(pr) ==
    CASE pr = "Low" -> "Medium"
      [] pr = "Medium" -> "High"
      [] pr = "High" -> "Low"

\* a button that steps through a cycle, pressed n times
RECURSIVE Pressed(_, _, _)
Pressed(kind, value, n) ==
    IF n = 0 THEN value
    ELSE Pressed(kind, IF kind = "status" THEN StatusNext(value) ELSE PriorityNext(value), n - 1)

\* struct Task
Task(id, description, st, pr) ==
    [id |-> id, description |-> description, status |-> st, priority |-> pr]

\* Task::view: the ItemActions the controls of a row can emit, given the
\* pending operation the row is rendered with
ViewActions(task, pending_item_operation) ==
    {[action |-> "Update",
      output |-> <<task.description, StatusNext(task.status), task.priority>>]}
    \cup (IF pending_item_operation = "PendingUpdate"
          THEN {[action |-> "None", output |-> <<>>]}
          ELSE {[action |-> "Edit", output |-> <<>>]})
    \cup (IF pending_item_operation = "PendingDelete"
          THEN {[action |-> "None", output |-> <<>>]}
          ELSE {[action |-> "Delete", output |-> <<>>]})

\* Task::pending_view: the placeholder of a PendingCreate entry; its three
\* buttons are disabled and their callbacks emit nothing
PendingViewActions(create_output) == {}

\* a From<Task> that copies the description and leaves the rest to Default
UpdateTaskFormDefaulted(value) ==
    [open |-> TRUE, id |-> value.id, description |-> value.description,
     status |-> "ToDo", priority |-> "Low", last_error |-> None]

\* impl From<Task> for UpdateTaskForm (with the id of the entry it edits)
UpdateTaskFormFrom(value) ==
    [open |-> TRUE, id |-> value.id, description |-> value.description,
     status |-> value.status, priority |-> value.priority, last_error |-> None]

\* a validate that lets every description through
UpdateTaskFormValidateAny(form) ==
    [ok |-> TRUE, error |-> None,
     output |-> <<form.description, form.status, form.priority>>,
     form |-> [form EXCEPT !.description = ""]]

\* UpdateTaskForm::validate: the result and the form it leaves
UpdateTaskFormValidate(form) ==
    IF form.description = ""
    THEN [ok |-> FALSE, error |-> "EmptyDescription", output |-> <<>>, form |-> form]
    ELSE [ok |-> TRUE, error |-> None,
          output |-> <<form.description, form.status, form.priority>>,
          form |-> [form EXCEPT !.description = ""]]

\* CreateTaskForm::validate: the result and the form it leaves
CreateTaskFormValidate(form) ==
    IF form.description = ""
    THEN [ok |-> FALSE, error |-> "EmptyDescription", output |-> "", form |-> form]
    ELSE [ok |-> TRUE, error |-> None, output |-> form.description,
          form |-> [form EXCEPT !.description = ""]]

\* ServerError::Database(e), by the sqlx error inside
ServerError == {"Database", "PoolTimedOut", "RowNotFound"}

\* a retry policy that calls every error retryable
ShouldRetryAlways(error) == TRUE

\* impl Retryable for ServerError: should_retry
ShouldRetry(error) == FALSE

\* a storage that keeps the first error it was given
KeepFirstError(st, error) ==
    IF st.last_error = None THEN [st EXCEPT !.last_error = error] ELSE st

\* TaskStorage::last_error: the one slot of the list's error, assigned Some(error)
SetLastError(st, error) == [st EXCEPT !.last_error = error]

\* ------------------------------------------------------------------------
\* The table todos (database.rs)
\* ------------------------------------------------------------------------

\* get_task: SELECT ... WHERE id = ?, fetch_one
get_task(rows, id, ok) ==
    IF ~ok THEN [ok |-> FALSE, error |-> "PoolTimedOut"]
    ELSE IF id \notin Ids(rows) THEN [ok |-> FALSE, error |-> "RowNotFound"]
    ELSE [ok |-> TRUE, task |-> CHOOSE r \in rows : r.id = id]

\* create_task, the INSERT: the description is stored, status and priority
\* take their defaults, the row gets the next rowid
InsertRow(rows, rowid, desc) == rows \cup {Task(rowid, desc, "ToDo", "Low")}

\* update_task, the UPDATE ... WHERE id = ? (no row: nothing is written)
UpdateRow(rows, id, output) ==
    {IF r.id = id THEN Task(id, output[1], output[2], output[3]) ELSE r : r \in rows}

\* delete_task, the DELETE ... WHERE id = ?
DeleteRowOf(rows, id) == {r \in rows : r.id # id}


\* ------------------------------------------------------------------------
\* The manager AsyncList (specification, sections 3, 4.2, 4.3, 4.4)
\* ------------------------------------------------------------------------

NoTask == Task(0, "", "ToDo", "Low")

\* a list entry: Available(item), PendingCreate(output), Pending(id, operation)
Entry(state, item, request_id) == [state |-> state, item |-> item, request_id |-> request_id]

\* the pending tag a row is rendered with
PendingItemOperation(entry) ==
    IF entry.state \in {"PendingUpdate", "PendingDelete"} THEN entry.state ELSE "NotPending"

\* a Pending::new that hands out the same request id every time
PendingNewReused(op, id, input, before) ==
    [request_id |-> 1, delay |-> 0, op |-> op, id |-> id, input |-> input,
     stage |-> "write", wrote |-> FALSE, before |-> before]

\* Pending::new(data): the request under a fresh request id (Uuid::new_v4),
\* with no delay;
\* stage and wrote follow the storage call made with it: the statement it is
\* at, and whether its first statement has written a row
PendingNew(op, id, input, before) ==
    [request_id |-> request_ids + 1, delay |-> 0, op |-> op, id |-> id, input |-> input,
     stage |-> "write", wrote |-> FALSE, before |-> before]

\* Pending::with_delay: the same request, to be answered after a delay
PendingWithDelay(r, delay) == [r EXCEPT !.delay = delay]

\* a Pending::map that answers under an identifier of its own
PendingMapFresh(r, ok, task, error) ==
    [request_id |-> r.request_id + 1, delay |-> 0, op |-> r.op, id |-> r.id, ok |-> ok,
     task |-> task, error |-> error, before |-> r.before]

\* Pending::map: the result of the storage call (ok, task, error) under the
\* request id and the delay of the request
PendingMap(r, ok, task, error) ==
    [request_id |-> r.request_id, delay |-> r.delay, op |-> r.op, id |-> r.id, ok |-> ok,
     task |-> task, error |-> error, before |-> r.before]

\* a manager that takes an intent on every entry that has an id
AcceptsPending(entry) == entry.state # "PendingCreate"

\* section 3: an intent is taken only on an entry with no operation in flight
Accepts(entry) == entry.state = "Available"

\* position of the entry a response belongs to, 0 if there is none
FindRequest(request_id) ==
    LET hits == {i \in 1..Len(items) :
                    items[i].state # "Available" /\ items[i].request_id = request_id}
    IN  IF hits = {} THEN 0 ELSE CHOOSE i \in hits : TRUE

\* position of the entry with the id, 0 if there is none
FindItem(id) ==
    LET hits == {i \in 1..Len(items) : items[i].state # "PendingCreate" /\ items[i].item.id = id}
    IN  IF hits = {} THEN 0 ELSE CHOOSE i \in hits : \A j \in hits : i <= j

\* an Update intent on entry i: Available -> PendingUpdate, storage update called
IntendUpdate(i, output) ==
    IF Accepts(items[i])
    THEN /\ request_ids < MaxRequests
         /\ items' = [items EXCEPT ![i] = Entry("PendingUpdate", @.item, request_ids + 1)]
         /\ inflight' = inflight \cup {PendingNew("update", items[i].item.id, output, items[i].item)}
         /\ request_ids' = request_ids + 1
         /\ UNCHANGED rejected
    ELSE /\ rejected' = TRUE
         /\ UNCHANGED <<items, inflight, request_ids>>

\* a Delete intent on entry i: Available -> PendingDelete, storage delete called
IntendDelete(i) ==
    IF Accepts(items[i])
    THEN /\ request_ids < MaxRequests
         /\ items' = [items EXCEPT ![i] = Entry("PendingDelete", @.item, request_ids + 1)]
         /\ inflight' = inflight \cup {PendingNew("delete", items[i].item.id, <<>>, items[i].item)}
         /\ request_ids' = request_ids + 1
         /\ UNCHANGED rejected
    ELSE /\ rejected' = TRUE
         /\ UNCHANGED <<items, inflight, request_ids>>

\* a control of row i is used and emits the ItemAction a
ItemAction(i, a) ==
    /\ i \in 1..Len(items)
    /\ items[i].state # "PendingCreate"
    /\ a \in ViewActions(items[i].item, PendingItemOperation(items[i]))
    /\ CASE a.action = "Update" ->
              /\ IntendUpdate(i, a.output)
              /\ UNCHANGED update_form
         [] a.action = "Delete" ->
              /\ IntendDelete(i)
              /\ UNCHANGED update_form
         [] a.action = "Edit" ->
              IF Accepts(items[i])
              THEN /\ update_form' = UpdateTaskFormFrom(items[i].item)
                   /\ UNCHANGED <<items, inflight, request_ids, rejected>>
              ELSE /\ rejected' = TRUE
                   /\ UNCHANGED <<items, inflight, request_ids, update_form>>
         [] a.action = "None" ->
              UNCHANGED <<items, inflight, request_ids, rejected, update_form>>
    /\ UNCHANGED <<table, next_rowid, responses, storage, create_form, failures>>
    /\ UNCHANGED <<mvars, pvars>>

\* UpdateTaskForm::view: the fields as the user leaves them in the open form:
\* the description input sets the text, each button steps through its cycle
FilledUpdateForm(text, st, pr) ==
    [update_form EXCEPT !.description = text,
                        !.status = Pressed("status", @, st),
                        !.priority = Pressed("priority", @, pr)]

\* CreateTaskForm::view: the description input sets the text
FilledCreateForm(text) == [create_form EXCEPT !.description = text]

\* the user fills in the open update form and presses Ok (Submit::Yes):
\* validate, then the Update intent; a form that fails stays open as the user
\* left it, with the error
SubmitUpdateForm(text, st, pr) ==
    /\ update_form.open
    /\ LET v == UpdateTaskFormValidate(FilledUpdateForm(text, st, pr))
           i == FindItem(update_form.id)
       IN  IF ~v.ok
           THEN /\ update_form' = [v.form EXCEPT !.last_error = v.error]
                /\ UNCHANGED <<items, inflight, request_ids, rejected>>
           ELSE /\ update_form' = NoForm
                /\ IF i = 0
                   THEN UNCHANGED <<items, inflight, request_ids, rejected>>
                   ELSE IntendUpdate(i, v.output)
    /\ UNCHANGED <<table, next_rowid, responses, storage, create_form, failures>>
    /\ UNCHANGED <<mvars, pvars>>

\* Submit::Cancel of the update form: the form is dropped, nothing is sent
CancelUpdateForm ==
    /\ update_form.open
    /\ update_form' = NoForm
    /\ UNCHANGED <<items, table, next_rowid, inflight, responses, storage, create_form,
                   request_ids, rejected, failures>>
    /\ UNCHANGED <<mvars, pvars>>

\* the user fills in the create form and presses "Add task" (Submit::Yes):
\* validate, then the Create intent
SubmitCreateForm(text) ==
    /\ LET v == CreateTaskFormValidate(FilledCreateForm(text))
       IN  IF ~v.ok
           THEN /\ create_form' = [v.form EXCEPT !.last_error = v.error]
                /\ UNCHANGED <<items, inflight, request_ids>>
           ELSE /\ request_ids < MaxRequests
                /\ create_form' = [v.form EXCEPT !.last_error = None]
                /\ items' = Append(items, Entry("PendingCreate",
                                                Task(0, v.output, "ToDo", "Low"),
                                                request_ids + 1))
                /\ inflight' = inflight \cup {PendingNew("create", 0, <<v.output>>, NoTask)}
                /\ request_ids' = request_ids + 1
    /\ UNCHANGED <<table, next_rowid, responses, storage, update_form, rejected, failures>>
    /\ UNCHANGED <<mvars, pvars>>

\* a storage call runs its first statement: the INSERT of create_task, the
\* UPDATE of update_task, the DELETE of delete_task (`?` returns on an error)
StorageWrite(r, ok) ==
    /\ r \in inflight /\ r.stage = "write"
    /\ IF ~ok
       THEN /\ inflight' = inflight \ {r}
            /\ responses' = responses \cup {PendingMap(r, FALSE, NoTask, "Database")}
            /\ UNCHANGED <<table, next_rowid>>
       ELSE CASE r.op = "create" ->
                   /\ table' = InsertRow(table, next_rowid, r.input[1])
                   /\ next_rowid' = next_rowid + 1
                   /\ inflight' = (inflight \ {r}) \cup
                                     {[r EXCEPT !.stage = "read", !.wrote = TRUE,
                                                !.id = next_rowid]}
                   /\ UNCHANGED responses
              [] r.op = "update" ->
                   /\ table' = UpdateRow(table, r.id, r.input)
                   /\ inflight' = (inflight \ {r}) \cup
                                     {[r EXCEPT !.stage = "read",
                                                !.wrote = (r.id \in Ids(table))]}
                   /\ UNCHANGED <<next_rowid, responses>>
              [] r.op = "delete" ->
                   /\ table' = DeleteRowOf(table, r.id)
                   /\ inflight' = inflight \ {r}
                   /\ responses' = responses \cup {PendingMap(r, TRUE, NoTask, None)}
                   /\ UNCHANGED next_rowid
    /\ UNCHANGED <<items, storage, create_form, update_form, request_ids, rejected, failures>>
    /\ UNCHANGED <<mvars, pvars>>

\* create_task and update_task end with get_task(id): the call returns its result
StorageRead(r, ok) ==
    /\ r \in inflight /\ r.stage = "read"
    /\ LET got == get_task(table, r.id, ok)
       IN  /\ inflight' = inflight \ {r}
           /\ responses' = responses \cup
                 {IF got.ok THEN PendingMap(r, TRUE, got.task, None)
                            ELSE PendingMap(r, FALSE, NoTask, got.error)}
    /\ UNCHANGED <<items, table, next_rowid, storage, create_form, update_form,
                   request_ids, rejected, failures>>
    /\ UNCHANGED <<mvars, pvars>>

\* section 4.4, the "To (success)" column, applied to entry i
Confirmed(i, p) ==
    IF p.op = "delete" THEN Remove(items, i)
    ELSE [items EXCEPT ![i] = Entry("Available", p.task, 0)]

\* section 4.4, the "To (failure)" column, applied to entry i
RolledBack(i, p) ==
    IF p.op = "create" THEN Remove(items, i)
    ELSE [items EXCEPT ![i] = Entry("Available", @.item, 0)]

\* sections 4.2 and 4.3: the manager consumes a response
Consume(p) ==
    /\ p \in responses
    /\ responses' = responses \ {p}
    /\ LET i == FindRequest(p.request_id)
       IN  IF i = 0
           THEN UNCHANGED <<items, storage, failures>>
           ELSE IF p.ok
           THEN /\ items' = Confirmed(i, p)
                /\ UNCHANGED <<storage, failures>>
           ELSE /\ items' = RolledBack(i, p)
                /\ storage' = IF ShouldRetry(p.error) THEN storage
                              ELSE SetLastError(storage, p.error)
                /\ failures' = failures \cup {[op |-> p.op, id |-> p.id]}
    /\ UNCHANGED <<table, next_rowid, inflight, create_form, update_form, request_ids, rejected>>
    /\ UNCHANGED <<mvars, pvars>>

\* the list as its first fetch-all leaves it: every row of the table Available
InitE ==
    /\ db_sender = FALSE
    /\ task_list = TaskListDefault
    /\ rx = EmptyBag
    /\ results = {}
    /\ todos = {}
    /\ created = {}
    /\ discarded = {}
    /\ preempted = {}
    /\ removed = {}
    /\ failed = FALSE
    /\ intents = 0
    /\ calls = NoCalls
    /\ table \in LoadedTables
    /\ next_rowid = MaxId(table) + 1
    /\ items = [i \in 1..Cardinality(table) |-> Entry("Available", RowsInOrder(table)[i], 0)]
    /\ inflight = {}
    /\ responses = {}
    /\ storage = [last_error |-> None]
    /\ create_form = CreateTaskFormDefault
    /\ update_form = NoForm
    /\ request_ids = 0
    /\ rejected = FALSE
    /\ failures = {}
    /\ ListViewDefault

NextE ==
    \/ \E i \in 1..Len(items) :
          \E a \in ViewActions(items[i].item, PendingItemOperation(items[i])) : ItemAction(i, a)
    \/ \E text \in Typed \cup {update_form.description}, n \in Presses :
          SubmitUpdateForm(text, n, n)
    \/ CancelUpdateForm
    \/ \E text \in Typed : SubmitCreateForm(text)
    \/ \E r \in inflight, ok \in BOOLEAN : StorageWrite(r, ok)
    \/ \E r \in inflight, ok \in BOOLEAN : StorageRead(r, ok)
    \/ \E p \in responses : Consume(p)

SpecEngine == InitE /\ [][NextE]_vars


\* ------------------------------------------------------------------------
\* Part III.  Filter, sorter and the rendered list (task_list.rs)
\* ------------------------------------------------------------------------

\* number of tasks in the collection that is rendered
MaxLen == 3

\* enum TaskFilter, enum TaskSorter
TaskFilter == {"All", "Active", "Completed"}
TaskSorter == {"StatusFirst", "PriorityFirst"}

\* std::cmp::Ordering, Ord::cmp on integers, Ordering::then, Ordering::reverse
Ordering == {"Less", "Equal", "Greater"}
Cmp(x, y) == IF x < y THEN "Less" ELSE IF x = y THEN "Equal" ELSE "Greater"
Then(o, other) == IF o = "Equal" THEN other ELSE o
Reverse(o) == CASE o = "Less" -> "Greater" [] o = "Equal" -> "Equal" [] o = "Greater" -> "Less"

\* `status as i32`, `priority as i32` of the #[repr(i32)] enums
StatusAsI32(st) == CASE st = "ToDo" -> 0 [] st = "InProgress" -> 1 [] st = "Done" -> 2
PriorityAsI32(pr) == CASE pr = "Low" -> 0 [] pr = "Medium" -> 1 [] pr = "High" -> 2

\* a filter for which only a task that has not been started is active
TaskFilterFilterToDo(filter, task) ==
    <<CASE filter = "All" -> TRUE
        [] filter = "Active" -> task.status = "ToDo"
        [] filter = "Completed" -> task.status = "Done",
      0>>

\* TaskFilter::filter: (visible, score)
TaskFilterFilter(filter, task) ==
    <<CASE filter = "All" -> TRUE
        [] filter = "Active" -> task.status # "Done"
        [] filter = "Completed" -> task.status = "Done",
      0>>

\* a sorter without the tie-break on the id
TaskSorterSortNoId(sorter, a, b, score_a, score_b) ==
    LET status_ordering == Cmp(StatusAsI32(a.status), StatusAsI32(b.status))
        priority_ordering == Cmp(PriorityAsI32(b.priority), PriorityAsI32(a.priority))
    IN  CASE sorter = "StatusFirst" -> Then(status_ordering, priority_ordering)
          [] sorter = "PriorityFirst" -> Then(priority_ordering, status_ordering)

\* a sorter that orders by descending score and nothing else
TaskSorterSortByScore(sorter, a, b, score_a, score_b) == Cmp(score_b, score_a)

\* a sorter that compares the priorities the same way round as the statuses
TaskSorterSortPriorityAscending(sorter, a, b, score_a, score_b) ==
    LET status_ordering == Cmp(StatusAsI32(a.status), StatusAsI32(b.status))
        priority_ordering == Cmp(PriorityAsI32(a.priority), PriorityAsI32(b.priority))
        id_ordering == Cmp(b.id, a.id)
    IN  Then(CASE sorter = "StatusFirst" -> Then(status_ordering, priority_ordering)
               [] sorter = "PriorityFirst" -> Then(priority_ordering, status_ordering),
             id_ordering)

\* TaskSorter::sort
TaskSorterSort(sorter, a, b, score_a, score_b) ==
    LET status_ordering == Cmp(StatusAsI32(a.status), StatusAsI32(b.status))
        priority_ordering == Cmp(PriorityAsI32(b.priority), PriorityAsI32(a.priority))
        id_ordering == Cmp(b.id, a.id)
    IN  Then(CASE sorter = "StatusFirst" -> Then(status_ordering, priority_ordering)
               [] sorter = "PriorityFirst" -> Then(priority_ordering, status_ordering),
             id_ordering)

\* the rows with their scores that the filter lets through, in storage order
Visible(ts, filter) ==
    LET scored == [i \in 1..Len(ts) |->
                      [task |-> ts[i], visible |-> TaskFilterFilter(filter, ts[i])[1],
                       score |-> TaskFilterFilter(filter, ts[i])[2]]]
    IN  SelectSeq(scored, LAMBDA e : e.visible)

\* a row put into a sorted sequence behind the rows that do not come after it
\* (a stable sort: equal rows keep their order)
RECURSIVE Insert(_, _, _)
Insert(sorted, e, sorter) ==
    IF sorted = <<>> THEN <<e>>
    ELSE IF TaskSorterSort(sorter, e.task, sorted[1].task, e.score, sorted[1].score) = "Less"
         THEN <<e>> \o sorted
         ELSE <<sorted[1]>> \o Insert(Tail(sorted), e, sorter)

\* sort_by(|a, b| sorter.sort(a, b, score_a, score_b)) on the first n rows
RECURSIVE SortBy(_, _, _)
SortBy(es, n, sorter) ==
    IF n = 0 THEN <<>> ELSE Insert(SortBy(es, n - 1, sorter), es[n], sorter)

\* section 4.5, 4.6: the filter+sort pipeline of a render
FilterSort(ts, filter, sorter) ==
    LET es == Visible(ts, filter)
        sorted == SortBy(es, Len(es), sorter)
    IN  [i \in 1..Len(sorted) |-> sorted[i].task]

\* TaskFilter::view: a checkbox sets the filter; the list is rendered again
ToggleFilter(f) ==
    /\ task_filter' = f
    /\ view' = FilterSort(entries, f, task_sorter)
    /\ UNCHANGED <<entries, task_sorter>>
    /\ UNCHANGED <<mvars, evars>>

\* TaskSorter::view: the button switches the sorter; the list is rendered again
ToggleSort ==
    /\ task_sorter' = (IF task_sorter = "StatusFirst" THEN "PriorityFirst" ELSE "StatusFirst")
    /\ view' = FilterSort(entries, task_filter, task_sorter')
    /\ UNCHANGED <<entries, task_filter>>
    /\ UNCHANGED <<mvars, evars>>

\* a loaded list at its first render: tasks with the ids 1..n in the order of
\* the table, every status and priority
InitV ==
    /\ db_sender = FALSE
    /\ task_list = TaskListDefault
    /\ rx = EmptyBag
    /\ results = {}
    /\ todos = {}
    /\ created = {}
    /\ discarded = {}
    /\ preempted = {}
    /\ removed = {}
    /\ failed = FALSE
    /\ intents = 0
    /\ calls = NoCalls
    /\ AsyncListDefault
    /\ table = {}
    /\ next_rowid = 1
    /\ \E n \in 0..MaxLen :
          \E f \in [1..n -> Status \X Priority] :
             entries = [i \in 1..n |-> Task(i, "a", f[i][1], f[i][2])]
    /\ task_filter = "Active"
    /\ task_sorter = "StatusFirst"
    /\ view = FilterSort(entries, task_filter, task_sorter)

NextV ==
    \/ \E f \in TaskFilter : ToggleFilter(f)
    \/ ToggleSort

SpecView == InitV /\ [][NextV]_vars

\* ------------------------------------------------------------------------
\* Part IV.  The functions of database.rs called concurrently
\* ------------------------------------------------------------------------

\* ids the callers pass to update_task and delete_task
StoreIds == {1, 2}

\* delays (seconds) the callers give their requests
Delays == {0, 1}

\* values the callers pass to update_task
StoreOutputs == {<<"b", "Done", "High">>, <<"b", "ToDo", "Low">>}

\* Pending::new(desc).with_delay(delay) is mapped over create_task: the call
\* starts with its INSERT still to run
CallCreate(desc, delay) ==
    /\ request_ids < MaxRequests
    /\ inflight' = inflight \cup
                      {PendingWithDelay(PendingNew("create", 0, <<desc>>, NoTask), delay)}
    /\ request_ids' = request_ids + 1
    /\ UNCHANGED <<items, table, next_rowid, responses, storage, create_form, update_form,
                   rejected, failures>>
    /\ UNCHANGED <<mvars, pvars>>

\* a request with a delay is mapped over update_task(id, desc, status, priority)
CallUpdate(id, output, delay) ==
    /\ request_ids < MaxRequests
    /\ inflight' = inflight \cup
                      {PendingWithDelay(PendingNew("update", id, output, NoTask), delay)}
    /\ request_ids' = request_ids + 1
    /\ UNCHANGED <<items, table, next_rowid, responses, storage, create_form, update_form,
                   rejected, failures>>
    /\ UNCHANGED <<mvars, pvars>>

\* a request with a delay is mapped over delete_task(id)
CallDelete(id, delay) ==
    /\ request_ids < MaxRequests
    /\ inflight' = inflight \cup
                      {PendingWithDelay(PendingNew("delete", id, <<>>, NoTask), delay)}
    /\ request_ids' = request_ids + 1
    /\ UNCHANGED <<items, table, next_rowid, responses, storage, create_form, update_form,
                   rejected, failures>>
    /\ UNCHANGED <<mvars, pvars>>

\* the table as the program finds it, no call running
InitS ==
    /\ db_sender = FALSE
    /\ task_list = TaskListDefault
    /\ rx = EmptyBag
    /\ results = {}
    /\ todos = {}
    /\ created = {}
    /\ discarded = {}
    /\ preempted = {}
    /\ removed = {}
    /\ failed = FALSE
    /\ intents = 0
    /\ calls = NoCalls
    /\ AsyncListDefault
    /\ table \in LoadedTables \cup {{}}
    /\ next_rowid = MaxId(table) + 1
    /\ ListViewDefault

NextS ==
    \/ \E desc \in Typed \ {""}, delay \in Delays : CallCreate(desc, delay)
    \/ \E id \in StoreIds, output \in StoreOutputs, delay \in Delays :
          CallUpdate(id, output, delay)
    \/ \E id \in StoreIds, delay \in Delays : CallDelete(id, delay)
    \/ \E r \in inflight, ok \in BOOLEAN : StorageWrite(r, ok)
    \/ \E r \in inflight, ok \in BOOLEAN : StorageRead(r, ok)

SpecStore == InitS /\ [][NextS]_vars

\* ------------------------------------------------------------------------
\* Properties of the rendered list
\* ------------------------------------------------------------------------

\* the tasks of the collection
Tasks == {entries[i] : i \in 1..Len(entries)}

\* C15: TaskSorter::sort is a total order on the tasks of a collection in both
\* modes: sort(a, b) is the reverse of sort(b, a), Less is transitive, and the
\* result is Equal exactly when a and b carry the same id.
C15_SortTotalOrder ==
    \A sorter \in TaskSorter : \A a, b \in Tasks :
        /\ TaskSorterSort(sorter, a, b, 0, 0) \in Ordering
        /\ TaskSorterSort(sorter, a, b, 0, 0) = Reverse(TaskSorterSort(sorter, b, a, 0, 0))
        /\ (TaskSorterSort(sorter, a, b, 0, 0) = "Equal") <=> (a.id = b.id)
        /\ \A c \in Tasks :
              (/\ TaskSorterSort(sorter, a, b, 0, 0) = "Less"
               /\ TaskSorterSort(sorter, b, c, 0, 0) = "Less")
                 => TaskSorterSort(sorter, a, c, 0, 0) = "Less"

\* C15 witness: three tasks of one status and one priority are rendered
\* priority first, the largest id first
C15_Witness ==
    /\ task_sorter = "PriorityFirst"
    /\ Len(entries) = 3 /\ Len(view) = 3
    /\ \A a, b \in Tasks : a.status = b.status /\ a.priority = b.priority
    /\ view[1].id = 3 /\ view[2].id = 2 /\ view[3].id = 1

\* the collection in every storage order
Reorderings(ts) ==
    LET n == Len(ts)
    IN  {[i \in 1..n |-> ts[f[i]]] : f \in Permutations(1..n)}

\* C16: the rendered sequence is the filter+sort pipeline of the unchanged
\* collection run again, it is the same for every storage order of the
\* entries, and it holds exactly the visible tasks, each before the tasks
\* the sorter puts after it.
C16_FilterSortStable ==
    /\ view = FilterSort(entries, task_filter, task_sorter)
    /\ \A ts \in Reorderings(entries) : FilterSort(ts, task_filter, task_sorter) = view
    /\ {view[i] : i \in 1..Len(view)} = {t \in Tasks : TaskFilterFilter(task_filter, t)[1]}
    /\ \A i, j \in 1..Len(view) :
          i < j => TaskSorterSort(task_sorter, view[i], view[j], 0, 0) = "Less"

\* C16 witness: a collection of three visible tasks is rendered in another
\* order than the one it is stored in
C16_Witness ==
    /\ Len(entries) = 3 /\ Len(view) = 3
    /\ task_sorter = "PriorityFirst"
    /\ view # entries
    /\ \E a, b \in Tasks : a.status # b.status /\ a.priority # b.priority

\* C18: TaskFilter::filter depends on the filter and the status of the task
\* only: All shows every task, Active the tasks that are not Done, Completed
\* the tasks that are Done, so a task is visible under exactly one of Active
\* and Completed; the score is 0.
C18_FilterByStatus ==
    \A t \in Tasks :
        /\ TaskFilterFilter("All", t) = <<TRUE, 0>>
        /\ TaskFilterFilter("Active", t) = <<t.status # "Done", 0>>
        /\ TaskFilterFilter("Completed", t) = <<t.status = "Done", 0>>
        /\ TaskFilterFilter("Active", t)[1] # TaskFilterFilter("Completed", t)[1]
        /\ \A u \in Tasks : \A f \in TaskFilter :
              u.status = t.status => TaskFilterFilter(f, u) = TaskFilterFilter(f, t)

\* C18 witness: under Completed a task that is Done is rendered and tasks
\* that are ToDo and InProgress are not
C18_Witness ==
    /\ task_filter = "Completed"
    /\ Len(entries) = 3 /\ Len(view) = 1
    /\ {t.status : t \in Tasks} = Status

\* scores a filter could hand to the sorter
Scores == {0, 1}

\* the statuses from first to last and the priorities from first to last in
\* a sorted list
StatusOrder == <<"ToDo", "InProgress", "Done">>
PriorityOrder == <<"High", "Medium", "Low">>
PlaceIn(order, x) == CHOOSE k \in 1..Len(order) : order[k] = x

\* a comes before b by status, by priority
StatusBefore(a, b) == PlaceIn(StatusOrder, a.status) < PlaceIn(StatusOrder, b.status)
PriorityBefore(a, b) == PlaceIn(PriorityOrder, a.priority) < PlaceIn(PriorityOrder, b.priority)

\* C22: in StatusFirst mode sort puts a before b exactly when a comes first by
\* status (ToDo, InProgress, Done), or with the same status by priority
\* (High, Medium, Low), or with both the same by the larger id; in
\* PriorityFirst mode priority decides before status; the scores passed to
\* sort change nothing.
C22_SortKeys ==
    \A a, b \in Tasks : \A score_a, score_b \in Scores :
        /\ (TaskSorterSort("StatusFirst", a, b, score_a, score_b) = "Less") <=>
              \/ StatusBefore(a, b)
              \/ a.status = b.status /\ PriorityBefore(a, b)
              \/ a.status = b.status /\ a.priority = b.priority /\ a.id > b.id
        /\ (TaskSorterSort("PriorityFirst", a, b, score_a, score_b) = "Less") <=>
              \/ PriorityBefore(a, b)
              \/ a.priority = b.priority /\ StatusBefore(a, b)
              \/ a.priority = b.priority /\ a.status = b.status /\ a.id > b.id
        /\ \A sorter \in TaskSorter :
              /\ TaskSorterSort(sorter, a, b, score_a, score_b) = TaskSorterSort(sorter, a, b, 0, 0)
              /\ (TaskSorterSort(sorter, a, b, score_a, score_b) = "Greater") <=>
                    (TaskSorterSort(sorter, b, a, score_b, score_a) = "Less")

\* C22 witness: priority first, a Done task of High priority is rendered
\* before a ToDo task of Low priority, which status first would put first
C22_Witness ==
    /\ task_sorter = "PriorityFirst"
    /\ Len(view) = 3
    /\ view[1].status = "Done" /\ view[1].priority = "High"
    /\ view[3].status = "ToDo" /\ view[3].priority = "Low"

\* ------------------------------------------------------------------------
\* Properties of the list engine
\* ------------------------------------------------------------------------

\* the storage calls that have been dispatched and whose response the manager
\* has not consumed yet
Outstanding == inflight \cup responses

\* C1: no Id has two storage operations in flight: the outstanding calls on
\* one Id are one call, an Available entry has none, and so an intent on a
\* PendingUpdate or PendingDelete entry has not been dispatched.
C1_OneInFlightPerId ==
    /\ \A r1, r2 \in Outstanding :
          (r1.id # 0 /\ r1.id = r2.id) => r1.request_id = r2.request_id
    /\ \A i \in 1..Len(items) :
          items[i].state = "Available" => \A r \in Outstanding : r.id # items[i].item.id
    /\ \A i \in 1..Len(items) :
          items[i].state \in {"PendingUpdate", "PendingDelete"} =>
             \E r \in Outstanding : /\ r.request_id = items[i].request_id
                                     /\ r.id = items[i].item.id
                                     /\ r.op = (IF items[i].state = "PendingUpdate"
                                                THEN "update" ELSE "delete")

\* C1 witness: an intent was refused on a pending entry whose call is outstanding
C1_Witness ==
    /\ rejected
    /\ \E i \in 1..Len(items) :
          /\ items[i].state \in {"PendingUpdate", "PendingDelete"}
          /\ \E r \in Outstanding : r.request_id = items[i].request_id

\* the entries that wait for a response
PendingEntries == {i \in 1..Len(items) : items[i].state # "Available"}

\* C11: request ids are unique and a response is consumed at most once: one
\* request id names one outstanding call and one pending entry, every pending
\* entry waits for an outstanding call, and once a response is consumed no
\* entry carries its request id any more, so that the same response delivered
\* again would match nothing.
C11_UniqueRequestIds ==
    /\ [](/\ \A r1, r2 \in Outstanding : r1.request_id = r2.request_id => r1 = r2
          /\ \A r \in Outstanding : r.request_id \in 1..request_ids
          /\ \A i, j \in PendingEntries : items[i].request_id = items[j].request_id => i = j
          /\ \A i \in PendingEntries :
                \E r \in Outstanding : r.request_id = items[i].request_id)
    /\ [][\A p \in responses \ responses' :
            /\ \A i \in 1..Len(items') :
                  items'[i].state = "Available" \/ items'[i].request_id # p.request_id
            /\ \A r \in inflight' \cup responses' : r.request_id # p.request_id]_vars

\* C11 witness: one response has been consumed and changed its entry while
\* the response of a later request waits
C11_Witness ==
    /\ request_ids >= 2
    /\ \E r \in responses : r.request_id = 2
    /\ \A r \in Outstanding : r.request_id # 1
    /\ PendingEntries # {}

\* C12: a form whose description is empty is not dispatched: validate returns
\* EmptyDescription and leaves the form as it is, the step that submits it
\* changes neither the collection nor the calls in flight and keeps the fields
\* the user left, and no call that was dispatched carries an empty description.
C12_ValidationBlocksDispatch ==
    /\ [](/\ \A text \in Typed, n \in Presses :
                LET f == FilledUpdateForm(text, n, n)
                    v == UpdateTaskFormValidate(f)
                IN  (update_form.open /\ f.description = "") =>
                       ~v.ok /\ v.error = "EmptyDescription" /\ v.form = f
          /\ \A text \in Typed :
                LET f == FilledCreateForm(text)
                    v == CreateTaskFormValidate(f)
                IN  f.description = "" =>
                       ~v.ok /\ v.error = "EmptyDescription" /\ v.form = f
          /\ \A r \in inflight : r.op \in {"create", "update"} => r.input[1] # "")
    /\ [][/\ (update_form' # update_form /\ update_form'.last_error = "EmptyDescription") =>
               /\ UNCHANGED <<items, table, inflight, responses, request_ids>>
               /\ \E n \in Presses :
                     update_form' = [FilledUpdateForm("", n, n)
                                        EXCEPT !.last_error = "EmptyDescription"]
          /\ (create_form' # create_form /\ create_form'.last_error = "EmptyDescription") =>
               /\ UNCHANGED <<items, table, inflight, responses, request_ids>>
               /\ create_form'.description = ""]_vars

\* C12 witness: both forms were submitted with an empty description and show
\* the error, the update form still open
C12_Witness ==
    /\ update_form.open
    /\ update_form.last_error = "EmptyDescription"
    /\ update_form.description = ""
    /\ create_form.last_error = "EmptyDescription"

\* C14: the list holds a single last error: when a failure response is
\* consumed, its entry is rolled back to the item it had at dispatch (a failed
\* create is removed), no other entry changes, and last_error becomes the
\* error of this response, whatever it held before; last_error is never more
\* than one error.
C14_SingleLastError ==
    /\ [](storage.last_error \in ServerError \cup {None})
    /\ [][\A p \in responses \ responses' :
            LET i == FindRequest(p.request_id)
            IN  (~p.ok /\ i # 0) =>
                   /\ items' = (IF p.op = "create" THEN Remove(items, i)
                                ELSE [items EXCEPT ![i] = Entry("Available", p.before, 0)])
                   /\ storage'.last_error = p.error]_vars

\* C14 witness: a create has failed at its INSERT (a Database error), another
\* call has failed too, and the last error is the PoolTimedOut that came later
C14_Witness ==
    /\ [op |-> "create", id |-> 0] \in failures
    /\ Cardinality(failures) >= 2
    /\ storage.last_error = "PoolTimedOut"
    /\ responses = {} /\ inflight = {}
    /\ \E i \in 1..Len(items) : items[i].state = "Available"

\* C17: a row whose entry is PendingUpdate or PendingDelete offers no control
\* that emits an Update, Edit or Delete action: every control emits None; the
\* placeholder of a PendingCreate entry offers no action at all.
C17_PendingControlsInert ==
    \A i \in 1..Len(items) :
        /\ items[i].state \in {"PendingUpdate", "PendingDelete"} =>
              \A a \in ViewActions(items[i].item, PendingItemOperation(items[i])) :
                  a.action = "None"
        /\ items[i].state = "PendingCreate" =>
              PendingViewActions(items[i].item.description) = {}

\* C21: an update form is seeded from the item: the form made from a task has
\* the description, status and priority of the task and no error, and
\* validating the form of a task with a description, as it was opened, gives
\* exactly (description, status, priority) of the task.
C21_UpdateFormSeeded ==
    \A i \in 1..Len(items) :
        items[i].state # "PendingCreate" =>
            LET t == items[i].item
                f == UpdateTaskFormFrom(t)
                v == UpdateTaskFormValidate(f)
            IN  /\ f.description = t.description
                /\ f.status = t.status
                /\ f.priority = t.priority
                /\ f.last_error = None
                /\ t.description # "" =>
                      v.ok /\ v.output = <<t.description, t.status, t.priority>>

\* C21 witness: the form of a task that is no longer ToDo was opened and
\* submitted as it was: the update in flight carries the values of the task
C21_Witness ==
    \E r \in inflight :
        /\ r.op = "update"
        /\ r.before.status # "ToDo"
        /\ r.input = <<r.before.description, r.before.status, r.before.priority>>

\* C7: when the failure response of an update is consumed, the entry that was
\* PendingUpdate becomes Available with the item it had when the update was
\* dispatched, no other entry changes, and last-error becomes that error.
C7_UpdateFailureRollback ==
    [][\A p \in responses \ responses' :
          (p.op = "update" /\ ~p.ok) =>
             LET i == FindRequest(p.request_id)
             IN  /\ i # 0
                 /\ items[i].state = "PendingUpdate"
                 /\ items' = [items EXCEPT ![i] = Entry("Available", p.before, 0)]
                 /\ storage'.last_error = p.error]_vars

\* C7 witness: an update has failed, its entry is Available again and the
\* error is the list's last error
C7_Witness ==
    /\ storage.last_error # None
    /\ \E f \in failures :
          /\ f.op = "update"
          /\ \E i \in 1..Len(items) : items[i].state = "Available" /\ items[i].item.id = f.id


\* ------------------------------------------------------------------------
\* Properties of the store
\* ------------------------------------------------------------------------

\* the row a create_task or update_task call has written
Written(r) ==
    IF r.op = "create" THEN Task(r.id, r.input[1], "ToDo", "Low")
    ELSE Task(r.id, r.input[1], r.input[2], r.input[3])

\* the result of the call r that returns in this step
Returned(r) == {p \in responses' \ responses : p.request_id = r.request_id}

\* C24: a create_task whose INSERT succeeded, and an update_task whose UPDATE
\* wrote an existing row, return Ok with the row as they wrote it whenever
\* their get_task is answered, whatever other calls ran in between
C24_ReportsOwnWrite ==
    [][\A r \in inflight \ inflight' :
          (r.stage = "read" /\ r.wrote) =>
             \A p \in Returned(r) :
                 p.error # "PoolTimedOut" => p.ok /\ p.task = Written(r)]_vars

\* delete_task(id) on any table: Ok(id), no row for id afterwards, and a
\* second DELETE changes nothing
DeleteAbsentOrPresent ==
    \A r \in inflight \ inflight' :
        (r.op = "delete" /\ table' = DeleteRowOf(table, r.id)) =>
            /\ r.id \notin Ids(table')
            /\ DeleteRowOf(table', r.id) = table'
            /\ \A p \in Returned(r) : p.error = None => p.ok /\ p.id = r.id

\* the UPDATE of update_task on an id with no row writes nothing
UpdateAbsentWritesNothing ==
    \A r \in inflight \ inflight' :
        (r.op = "update" /\ r.stage = "write" /\ r.id \notin Ids(table)) => table' = table

\* an update_task whose UPDATE found no row returns an error
UpdateAbsentReturnsError ==
    \A r \in inflight \ inflight' :
        (r.op = "update" /\ r.stage = "read" /\ ~r.wrote) =>
            \A p \in Returned(r) : ~p.ok

\* C25: delete_task(id) returns Ok(id) and leaves no row for id whether or not
\* there was one, and deleting again changes nothing; update_task on an id
\* with no row leaves the table unchanged and returns an error
C25_AbsentId ==
    [][DeleteAbsentOrPresent /\ UpdateAbsentWritesNothing /\ UpdateAbsentReturnsError]_vars

\* what the storage function mapped over request r can return in this state
StorageResults(r) ==
    IF r.stage = "write"
    THEN {<<FALSE, NoTask, "Database">>} \cup
         (IF r.op = "delete" THEN {<<TRUE, NoTask, None>>} ELSE {})
    ELSE {IF get_task(table, r.id, ok).ok
          THEN <<TRUE, get_task(table, r.id, ok).task, None>>
          ELSE <<FALSE, NoTask, get_task(table, r.id, ok).error>> : ok \in BOOLEAN}

\* the requests whose storage call returns in this step
Answered == {r \in inflight \ inflight' : \A q \in inflight' : q.request_id # r.request_id}

\* C26: the Pending a storage call returns carries the request id and the
\* delay of the request it was mapped over, with the result of the storage
\* function as its data; every response answers a request that was in flight
C26_MapPreservesCorrelation ==
    [][/\ \A r \in Answered :
             \E p \in responses' \ responses :
                 /\ p.request_id = r.request_id
                 /\ p.delay = r.delay
                 /\ <<p.ok, p.task, p.error>> \in StorageResults(r)
       /\ \A p \in responses' \ responses :
             \E r \in Answered : r.request_id = p.request_id]_vars

\* a delayed request has been answered with a task while another request,
\* not delayed, is still in flight
C26_Witness ==
    \E p \in responses, r \in inflight :
        p.ok /\ p.op = "update" /\ p.delay = 1 /\ r.delay = 0 /\ r.request_id # p.request_id

\* C23: a create submit that goes through consumes the input: validate of a
\* form with a description returns it and leaves the description empty, so
\* that validating again fails with EmptyDescription; the step of add_task
\* that sends AddTodo sends the typed text and leaves next_task empty; and
\* while next_task is empty no step sends an AddTodo, so a second submit
\* without typing dispatches nothing.
C23_SubmitConsumesInput ==
    /\ [](\A text \in Descriptions :
            LET v == CreateTaskFormValidate([CreateTaskFormDefault EXCEPT !.description = text])
                w == CreateTaskFormValidate(v.form)
            IN  /\ v.ok /\ v.output = text /\ v.form.description = ""
                /\ ~w.ok /\ w.error = "EmptyDescription")
    /\ [][/\ Waiting("AddTodo")' > Waiting("AddTodo") =>
               /\ task_list.next_task # ""
               /\ rx' = Send(rx, AddTodo(task_list.next_task, FALSE))
               /\ task_list'.next_task = ""
          /\ task_list.next_task = "" => Waiting("AddTodo")' <= Waiting("AddTodo")]_vars

\* C23 witness: the typed text has been sent as one AddTodo and the input is
\* empty again
C23_Witness ==
    /\ intents = 1
    /\ Waiting("AddTodo") = 1
    /\ task_list.next_task = ""

\* C10 as stated: every user intent causes at most one storage call.
C10_OneCallPerIntent == calls.AddTodo + calls.FetchTodo <= intents


\* C10, amended: every AddTodo request in the channel or executed stems from
\* one user intent, every FetchTodo from one accepted AddTodo, each request is
\* executed at most once, a failure puts nothing back in the channel, and
\* should_retry is false for every error.
C10_NoAutomaticRetry ==
    /\ calls.AddTodo + Waiting("AddTodo") = intents
    /\ calls.FetchTodo + Waiting("FetchTodo")
          + Cardinality({m \in results : m.msg = "TodoAdded"}) = Cardinality(created)
    /\ calls.FetchAllTodos + Waiting("FetchAllTodos") = (IF db_sender THEN 1 ELSE 0)
    /\ \A e \in ServerError : ~ShouldRetry(e)

\* C10 witness: a storage call of an intent has failed and the channel is empty
C10_Witness == intents > 0 /\ calls.AddTodo > Cardinality(created) /\ rx = EmptyBag

====
